---- MODULE Spec2Model ----
(***************************************************************************)
(* A model of the monochrome text renderer of src/src/backends/freetype.py *)
(* (classes Bitmap, Glyph and Font).                                       *)
(*                                                                         *)
(* Pixel buffers are sequences of BOOLEAN; the flat 0-based offset p of    *)
(* the code is element p + 1 of the sequence.                              *)
(***************************************************************************)
EXTENDS Integers, Sequences, FiniteSets, TLC

VARIABLES
    \* ---- Bitmap / bitblt ------------------------------------------------
    canvas,      \* the destination Bitmap: [width, height, pixels]
    newArgs,     \* <<width, height>> of the last Bitmap(width, height) call
    newState,    \* "none" | "ok" | "raised": how that call ended
                 \* ("given": the bitmap was constructed with its pixels)
    src,         \* the source Bitmap of the last bitblt
    blitPos,     \* <<x, y>> of the last bitblt
    before,      \* canvas.pixels as they were when the last bitblt started
    blitState    \* "none" | "done" | "again" | "raised": how the last bitblt
                 \* ended ("again": it repeated the blit before it)

VARIABLES
    \* ---- Glyph.unpack_mono_bitmap ---------------------------------------
    ftbitmap,    \* the rasterizer's packed bitmap: [rows, width, pitch, buffer]
    unpacked,    \* [data, stray, raised]: the unpacked pixels, whether a write
                 \* landed outside the row it belongs to, whether a write raised
    unpackState  \* "none" | "done" | "raised"

VARIABLES
    \* ---- Font: the memoized lookups ------------------------------------
    nFonts,      \* Font instances constructed so far: the instances 1..nFonts
    glyphCache,  \* the cache of glyph_for_character, least recently used
                 \* first: entries [font, char, gen, glyph]
    kernCache,   \* the cache of kerning_offset, least recently used first:
                 \* entries [font, prev, char, value]
    loads,       \* [font, char] -> how often face.load_char ran for them
    faceNoneKern,\* what face.get_kerning answers (in 1/64 pixel) when it is
                 \* handed None as the previous character
    lastCall     \* the last lookup: [op, font, prev, char, hit, asked, result]

VARIABLES
    \* ---- Font.text_dimensions / Font.render_text ------------------------
    text,        \* the text: a sequence of characters
    rcall,       \* the call made: [op, given, height, glyphs]; op is "none",
                 \* "dims" or "render", given says whether render_text got a
                 \* height, glyphs is the number of glyphs text_dimensions got
    result       \* what the call gave. text_dimensions: [status, width,
                 \* height, baseline, cache]; render_text: [status, width,
                 \* height, baseline, bitmap, blits, glyphCache, loads,
                 \* kernCache], where blits lists the <<x, y>> of the bitblt
                 \* calls it made and the caches are as the call left them

canvasVars == <<canvas, newArgs, newState, src, blitPos, before, blitState>>
unpackVars == <<ftbitmap, unpacked, unpackState>>
cacheVars == <<nFonts, glyphCache, kernCache, loads, faceNoneKern, lastCall>>
renderVars == <<text, rcall, result>>

vars == <<canvasVars, unpackVars, cacheVars, renderVars>>

(***************************************************************************)
(* Bounds of the model.                                                    *)
(***************************************************************************)
MaxDim == 2        \* widths and heights of the bitmaps of the blit model
MaxRows == 2       \* rows of a packed bitmap
MaxPitch == 2      \* bytes per row of a packed bitmap
MaxFonts == 2      \* Font instances
MaxChars == 3      \* characters of the alphabet of the cache model
MaxLoads == 2      \* rasterizations of one character by one instance
LruMaxSize == 2    \* entries of an lru_cache: functools' default maxsize is
                   \* 128, scaled down so that a full cache is reachable
MaxTextLen == 3    \* characters of a rendered text
MaxHeight == 5     \* the heights handed to render_text

(***************************************************************************)
(* Bitmap                                                                  *)
(***************************************************************************)
Zeros(n) == [p \in 1..n |-> FALSE]

\* Bitmap.__init__(width, height): np.zeros(width * height) raises
\* ValueError for a negative size and for nothing else.
BitmapInit(width, height) ==
    IF width * height < 0
    THEN [ok |-> FALSE, bitmap |-> [width |-> width, height |-> height, pixels |-> <<>>]]
    ELSE [ok |-> TRUE,
          bitmap |-> [width |-> width, height |-> height, pixels |-> Zeros(width * height)]]

\* Bitmap(width, height, pixels): the buffer is taken as given.
BitmapOf(width, height, pixels) ==
    [width |-> width, height |-> height, pixels |-> pixels]

EmptyBitmap == BitmapOf(0, 0, <<>>)

\* A slice bound i of a buffer of n elements, as the interpreter normalises it:
\* a negative bound counts from the end, and the result is clipped to 0..n.
SliceIndex(i, n) ==
    IF i < 0 THEN (IF i + n < 0 THEN 0 ELSE i + n)
    ELSE (IF i > n THEN n ELSE i)

SliceLen(a, b, n) ==
    IF SliceIndex(b, n) > SliceIndex(a, n) THEN SliceIndex(b, n) - SliceIndex(a, n) ELSE 0

\* dst[d : d + w] = src[s : s + w]   (the overwriting variant)
OrSliceOverwrite(dstpix, d, srcpix, s, w) ==
    LET n   == Len(dstpix)
        m   == Len(srcpix)
        dlo == SliceIndex(d, n)
        slo == SliceIndex(s, m)
        Ld  == SliceLen(d, d + w, n)
        Ls  == SliceLen(s, s + w, m)
    IN  IF Ld = Ls
        THEN [ok |-> TRUE,
              pixels |-> [p \in 1..n |->
                  IF p > dlo /\ p <= dlo + Ld
                  THEN srcpix[slo + (p - dlo)]
                  ELSE dstpix[p]]]
        ELSE IF Ls = 1
        THEN [ok |-> TRUE,
              pixels |-> [p \in 1..n |->
                  IF p > dlo /\ p <= dlo + Ld
                  THEN srcpix[slo + 1]
                  ELSE dstpix[p]]]
        ELSE [ok |-> FALSE, pixels |-> dstpix]

\* self.pixels[d : d + w] |= src.pixels[s : s + w]
\* Both slices are clipped to their buffers; the in-place OR needs the source
\* slice to have the length of the destination slice, or length 1 (which is
\* broadcast over the destination slice); anything else raises ValueError.
OrSlice(dstpix, d, srcpix, s, w) ==
    LET n   == Len(dstpix)
        m   == Len(srcpix)
        dlo == SliceIndex(d, n)
        slo == SliceIndex(s, m)
        Ld  == SliceLen(d, d + w, n)
        Ls  == SliceLen(s, s + w, m)
    IN  IF Ld = Ls
        THEN [ok |-> TRUE,
              pixels |-> [p \in 1..n |->
                  IF p > dlo /\ p <= dlo + Ld
                  THEN dstpix[p] \/ srcpix[slo + (p - dlo)]
                  ELSE dstpix[p]]]
        ELSE IF Ls = 1
        THEN [ok |-> TRUE,
              pixels |-> [p \in 1..n |->
                  IF p > dlo /\ p <= dlo + Ld
                  THEN dstpix[p] \/ srcpix[slo + 1]
                  ELSE dstpix[p]]]
        ELSE [ok |-> FALSE, pixels |-> dstpix]

\* The loop of bitblt from row sy on: rows already written stay written when
\* a later row raises.
RECURSIVE BitbltRows(_, _, _, _, _, _)
BitbltRows(dstpix, dstwidth, s, sy, srcpixel, dstpixel) ==
    IF sy >= s.height
    THEN [ok |-> TRUE, pixels |-> dstpix]
    ELSE LET r == OrSlice(dstpix, dstpixel, s.pixels, srcpixel, s.width)
         IN  IF ~r.ok
             THEN r
             ELSE BitbltRows(r.pixels, dstwidth, s, sy + 1,
                             srcpixel + s.width,
                             dstpixel + (dstwidth - s.width) + s.width)

\* Bitmap.bitblt(self, src, x, y)
bitblt(dst, s, x, y) ==
    BitbltRows(dst.pixels, dst.width, s, 0, 0, y * dst.width + x)

(***************************************************************************)
(* Glyph.unpack_mono_bitmap                                                *)
(***************************************************************************)
Min(a, b) == IF a < b THEN a ELSE b
Max(a, b) == IF a > b THEN a ELSE b

Pow2(n) == IF n = 0 THEN 1 ELSE IF n = 1 THEN 2 ELSE IF n = 2 THEN 4
           ELSE IF n = 3 THEN 8 ELSE IF n = 4 THEN 16 ELSE IF n = 5 THEN 32
           ELSE IF n = 6 THEN 64 ELSE 128

\* the least-significant bit first
BitOfLsbFirst(byte_value, bit_index) ==
    (byte_value \div Pow2(bit_index)) % 2 = 1

\* byte_value & (1 << (7 - bit_index))
BitOf(byte_value, bit_index) ==
    (byte_value \div Pow2(7 - bit_index)) % 2 = 1

\* always a whole byte
BitsOfByteWhole(width, num_bits_done) == 8

\* min(8, bitmap.width - num_bits_done): the bits of this byte that are pixels
BitsOfByte(width, num_bits_done) == Min(8, width - num_bits_done)

\* data[index] = value, for the row y of a bitmap of the given width.
\* data is a bytearray: a negative index counts from the end, and an index
\* outside the buffer raises IndexError. stray records a write outside row y.
WritePixel(u, index, value, y, width) ==
    LET n == Len(u.data)
        i == IF index < 0 THEN index + n ELSE index
    IN  IF i >= 0 /\ i < n
        THEN [data   |-> [u.data EXCEPT ![i + 1] = value],
              stray  |-> u.stray \/ index < y * width \/ index >= (y + 1) * width,
              raised |-> FALSE]
        ELSE [data |-> u.data, stray |-> TRUE, raised |-> TRUE]

\* for bit_index in range(nbits): data[rowstart + bit_index] = bit
RECURSIVE UnpackBits(_, _, _, _, _, _, _)
UnpackBits(u, byte_value, rowstart, nbits, bit_index, y, width) ==
    IF bit_index >= nbits
    THEN u
    ELSE LET v == WritePixel(u, rowstart + bit_index, BitOf(byte_value, bit_index),
                             y, width)
         IN  IF v.raised
             THEN v
             ELSE UnpackBits(v, byte_value, rowstart, nbits, bit_index + 1, y, width)

\* for byte_index in range(bitmap.pitch): ...
RECURSIVE UnpackBytes(_, _, _, _)
UnpackBytes(u, bm, y, byte_index) ==
    IF byte_index >= bm.pitch
    THEN u
    ELSE LET byte_value    == bm.buffer[y * bm.pitch + byte_index + 1]
             num_bits_done == byte_index * 8
             rowstart      == y * bm.width + byte_index * 8
             v == UnpackBits(u, byte_value, rowstart,
                             BitsOfByte(bm.width, num_bits_done), 0, y, bm.width)
         IN  IF v.raised
             THEN v
             ELSE UnpackBytes(v, bm, y, byte_index + 1)

\* for y in range(bitmap.rows): ...
RECURSIVE UnpackRows(_, _, _)
UnpackRows(u, bm, y) ==
    IF y >= bm.rows
    THEN u
    ELSE LET v == UnpackBytes(u, bm, y, 0)
         IN  IF v.raised
             THEN v
             ELSE UnpackRows(v, bm, y + 1)

\* Glyph.unpack_mono_bitmap(bitmap)
unpack_mono_bitmap(bm) ==
    UnpackRows([data |-> Zeros(bm.rows * bm.width), stray |-> FALSE, raised |-> FALSE],
               bm, 0)

\* The bytes of the packed bitmaps: 01001011 and its complement 10110100, so
\* that every bit position is on in one byte and off in the other.
ByteValues == {75, 180}

PackedBitmaps ==
    UNION { { [rows |-> r, width |-> w, pitch |-> p, buffer |-> b] :
                  b \in [1..(r * p) -> ByteValues] } :
            r \in 0..MaxRows, p \in 0..MaxPitch, w \in 0..(8 * MaxPitch + 1) }

\* The 8x8 block of the spec's scenario: pitch 1, every byte 0xFF.
Block8x8 == [rows |-> 8, width |-> 8, pitch |-> 1, buffer |-> [i \in 1..8 |-> 255]]

UnpackInputs == PackedBitmaps \cup {Block8x8}

Unpack ==
    /\ unpackState = "none"
    /\ unpacked' = unpack_mono_bitmap(ftbitmap)
    /\ unpackState' = IF unpack_mono_bitmap(ftbitmap).raised THEN "raised" ELSE "done"
    /\ UNCHANGED ftbitmap
    /\ UNCHANGED <<canvasVars, cacheVars, renderVars>>

NextUnpack == Unpack

(***************************************************************************)
(* The blit model: one canvas is constructed, a bitmap is blitted onto it,  *)
(* and the same bitmap is blitted at the same place again.                 *)
(***************************************************************************)
\* Pixel patterns of the source bitmaps: all off, all on, alternating.
Pattern(k, n) ==
    [p \in 1..n |-> CASE k = 0 -> FALSE
                      [] k = 1 -> TRUE
                      [] k = 2 -> (p % 2 = 1)
                      [] OTHER -> (p % 2 = 0)]

SrcBitmaps ==
    { BitmapOf(w, h, Pattern(k, w * h)) : w \in 0..MaxDim, h \in 0..MaxDim, k \in 0..3 }

IdleCanvas ==
    /\ canvas = EmptyBitmap
    /\ newArgs = <<0, 0>>
    /\ newState = "none"
    /\ src = EmptyBitmap
    /\ blitPos = <<0, 0>>
    /\ before = <<>>
    /\ blitState = "none"

IdleUnpack ==
    /\ ftbitmap = [rows |-> 0, width |-> 0, pitch |-> 0, buffer |-> <<>>]
    /\ unpacked = [data |-> <<>>, stray |-> FALSE, raised |-> FALSE]
    /\ unpackState = "none"

\* outbuffer = Bitmap(w, h)
NewBitmap(w, h) ==
    LET r == BitmapInit(w, h)
    IN  /\ newState = "none"
        /\ newArgs' = <<w, h>>
        /\ newState' = IF r.ok THEN "ok" ELSE "raised"
        /\ canvas' = r.bitmap
        /\ src' = EmptyBitmap
        /\ blitPos' = <<0, 0>>
        /\ before' = <<>>
        /\ blitState' = "none"
        /\ UNCHANGED <<unpackVars, cacheVars, renderVars>>

\* Bitmap(w, h, pixels): a bitmap that comes with its pixels, as a glyph's.
NewBitmapPixels(w, h, k) ==
    /\ newState = "none"
    /\ newArgs' = <<w, h>>
    /\ newState' = "given"
    /\ canvas' = BitmapOf(w, h, Pattern(k, w * h))
    /\ src' = EmptyBitmap
    /\ blitPos' = <<0, 0>>
    /\ before' = <<>>
    /\ blitState' = "none"
    /\ UNCHANGED <<unpackVars, cacheVars, renderVars>>

\* canvas.bitblt(s, x, y), the first blit onto a canvas
Bitblt(s, x, y) ==
    /\ newState \in {"ok", "given"}
    /\ blitState = "none"
    /\ LET r == bitblt(canvas, s, x, y)
       IN  /\ canvas' = [canvas EXCEPT !.pixels = r.pixels]
           /\ blitState' = IF r.ok THEN "done" ELSE "raised"
    /\ src' = s
    /\ blitPos' = <<x, y>>
    /\ before' = canvas.pixels
    /\ UNCHANGED <<newArgs, newState>>
    /\ UNCHANGED <<unpackVars, cacheVars, renderVars>>

\* canvas.bitblt(src, x, y) once more, with the source and place of the last blit
BitbltAgain ==
    /\ blitState = "done"
    /\ LET r == bitblt(canvas, src, blitPos[1], blitPos[2])
       IN  /\ canvas' = [canvas EXCEPT !.pixels = r.pixels]
           /\ blitState' = IF r.ok THEN "again" ELSE "raised"
    /\ before' = canvas.pixels
    /\ UNCHANGED <<newArgs, newState, src, blitPos>>
    /\ UNCHANGED <<unpackVars, cacheVars, renderVars>>

NextCanvas ==
    \/ \E w \in -2..MaxDim, h \in -2..MaxDim : NewBitmap(w, h)
    \/ \E w \in 0..MaxDim, h \in 0..MaxDim, k \in 0..3 : NewBitmapPixels(w, h, k)
    \/ \E s \in SrcBitmaps, x \in -1..MaxDim, y \in -1..MaxDim : Bitblt(s, x, y)
    \/ BitbltAgain

(***************************************************************************)
(* Glyph                                                                   *)
(***************************************************************************)
\* Glyph.__init__(pixels, width, height, top, advance_width)
Glyph(pixels, width, height, top, advance_width) ==
    LET descent == Max(0, height - top)
    IN  [bitmap        |-> BitmapOf(width, height, pixels),
         width         |-> width,
         height        |-> height,
         top           |-> top,
         descent       |-> descent,
         ascent        |-> Max(0, Max(top, height) - descent),
         advance_width |-> advance_width]

\* Glyph.from_glyphslot(slot): advance.x is in 26.6 fixed point
from_glyphslot(slot) ==
    Glyph(unpack_mono_bitmap(slot.bitmap).data,
          slot.bitmap.width, slot.bitmap.rows, slot.bitmap_top,
          slot.advance_x \div 64)

(***************************************************************************)
(* The face: what the rasterizer answers. It is a function of its          *)
(* arguments: the same character gives the same glyph slot, the same pair  *)
(* the same kerning.                                                       *)
(***************************************************************************)
None == 0                      \* Python's None as a previous character

Slot(rows, width, pitch, buffer, top, advance_x) ==
    [bitmap     |-> [rows |-> rows, width |-> width, pitch |-> pitch, buffer |-> buffer],
     bitmap_top |-> top,
     advance_x  |-> advance_x]

\* The glyph slots of the characters that texts are made of:
\*   1  two rows on the baseline, as wide as its advance        ## / #.
\*   2  a descender: one row above, one below the baseline       # / #
\*   3  wider than its advance, and above its own rows           #.#
\*   4  a space: no pixels, an advance
\*   5  wholly below the baseline, with a padding byte per row   ##
PaletteSlots ==
    << Slot(2, 2, 1, <<192, 128>>, 2, 128),
       Slot(2, 1, 1, <<128, 128>>, 1, 100),
       Slot(1, 3, 1, <<160>>, 3, 64),
       Slot(0, 0, 0, <<>>, 0, 128),
       Slot(1, 2, 2, <<192, 255>>, -1, 150) >>

\* The glyphs of the spec's scenario: "A" (advance 10, width 12) and "V"
\* (advance 8, width 10).
ScenarioSlots ==
    << Slot(1, 12, 2, <<255, 240>>, 1, 640),
       Slot(1, 10, 2, <<255, 192>>, 1, 512) >>

TextChars == 1..Len(PaletteSlots)
CharA == Len(PaletteSlots) + 1
CharV == Len(PaletteSlots) + 2
AllChars == 1..(Len(PaletteSlots) + Len(ScenarioSlots))

\* face.load_char(char, ...); face.glyph
FaceSlot(char) ==
    IF char <= Len(PaletteSlots)
    THEN PaletteSlots[char]
    ELSE ScenarioSlots[char - Len(PaletteSlots)]

\* Glyph.from_glyphslot(self.face.glyph) after face.load_char(char, ...),
\* tabulated by character.
LoadedGlyph == [char \in AllChars |-> from_glyphslot(FaceSlot(char))]

\* The face's kerning table, in 1/64 pixel: row = previous character.
KerningTable ==
    << << -64,   -1, -130,   0,  64 >>,
       << 127, -128,    0, -64,   0 >>,
       << -64,    0,  -64,   0, -65 >>,
       <<   0,    0,   64,   0,   0 >>,
       <<  64,  -64,    0, 128, -64 >> >>

\* face.get_kerning(previous_char, char).x, in 1/64 pixel. What the face
\* answers when it is handed None is not the code's to decide: faceNoneKern.
FaceKerning(prev, char) ==
    IF prev = None THEN faceNoneKern
    ELSE IF prev = CharA /\ char = CharV THEN -128
    ELSE IF prev \in TextChars /\ char \in TextChars THEN KerningTable[prev][char]
    ELSE 0

NoneKernUnits == {-70, 0, 64}

(***************************************************************************)
(* Font.glyph_for_character and Font.kerning_offset, both wrapped in       *)
(* functools.lru_cache: one cache per decorated function, shared by every  *)
(* instance and keyed by the call's arguments (self included).             *)
(***************************************************************************)
Chars == 1..MaxChars
FontIds == 1..MaxFonts

\* Index of the entry whose key (the call's arguments, self first) is key,
\* 0 when there is none; keys lists the keys of the cache's entries.
LruFind(keys, key) ==
    IF \E i \in 1..Len(keys) : keys[i] = key
    THEN CHOOSE i \in 1..Len(keys) : keys[i] = key
    ELSE 0

\* A hit moves the entry to the most recently used end.
LruTouch(cache, i) ==
    [j \in 1..Len(cache) |->
        IF j < i THEN cache[j] ELSE IF j < Len(cache) THEN cache[j + 1] ELSE cache[i]]

\* A miss stores the new entry; a full cache first drops its least
\* recently used entry.
LruStore(cache, entry) ==
    IF Len(cache) >= LruMaxSize
    THEN Append(Tail(cache), entry)
    ELSE Append(cache, entry)

\* f.glyph_for_character(c) on the cache gc, with lds the load_char counts.
\* A miss runs face.load_char and from_glyphslot; gen names the Glyph
\* object by the number of the load_char call that made it.
GlyphLookup(gc, lds, f, c) ==
    LET i == LruFind([j \in 1..Len(gc) |-> <<gc[j].font, gc[j].char>>], <<f, c>>)
    IN  IF i # 0
        THEN [cache |-> LruTouch(gc, i), loads |-> lds, hit |-> TRUE,
              gen |-> gc[i].gen, glyph |-> gc[i].glyph]
        ELSE [cache |-> LruStore(gc, [font |-> f, char |-> c,
                                      gen |-> lds[<<f, c>>] + 1,
                                      glyph |-> LoadedGlyph[c]]),
              loads |-> [lds EXCEPT ![<<f, c>>] = @ + 1],
              hit |-> FALSE,
              gen |-> lds[<<f, c>>] + 1,
              glyph |-> LoadedGlyph[c]]

\* f.kerning_offset(prev, c) on the cache kc. A miss asks the face, with
\* prev as it is, and floors the answer to whole pixels.
KernLookup(kc, f, prev, c) ==
    LET i == LruFind([j \in 1..Len(kc) |-> <<kc[j].font, kc[j].prev, kc[j].char>>],
                     <<f, prev, c>>)
        value == FaceKerning(prev, c) \div 64
    IN  IF i # 0
        THEN [cache |-> LruTouch(kc, i), hit |-> TRUE, value |-> kc[i].value]
        ELSE [cache |-> LruStore(kc, [font |-> f, prev |-> prev, char |-> c,
                                      value |-> value]),
              hit |-> FALSE, value |-> value]

NoCall ==
    [op |-> "none", font |-> 0, prev |-> None, char |-> 0,
     hit |-> FALSE, asked |-> FALSE, result |-> 0]

IdleCache ==
    /\ nFonts = 0
    /\ glyphCache = <<>>
    /\ kernCache = <<>>
    /\ loads = [k \in FontIds \X AllChars |-> 0]
    /\ faceNoneKern = 0
    /\ lastCall = NoCall

\* Font(filename, size)
NewFont ==
    /\ nFonts < MaxFonts
    /\ nFonts' = nFonts + 1
    /\ lastCall' = [op |-> "new", font |-> nFonts + 1, prev |-> None, char |-> 0,
                    hit |-> FALSE, asked |-> FALSE, result |-> 0]
    /\ UNCHANGED <<glyphCache, kernCache, loads, faceNoneKern>>
    /\ UNCHANGED <<canvasVars, unpackVars, renderVars>>

\* f.glyph_for_character(c)
GlyphForCharacter(f, c) ==
    LET r == GlyphLookup(glyphCache, loads, f, c)
    IN  /\ f \in 1..nFonts
        /\ r.hit \/ loads[<<f, c>>] < MaxLoads
        /\ glyphCache' = r.cache
        /\ loads' = r.loads
        /\ lastCall' = [op |-> "glyph", font |-> f, prev |-> None, char |-> c,
                        hit |-> r.hit, asked |-> ~r.hit, result |-> r.gen]
        /\ UNCHANGED <<nFonts, kernCache, faceNoneKern>>
        /\ UNCHANGED <<canvasVars, unpackVars, renderVars>>

\* f.kerning_offset(prev, c)
KerningOffset(f, prev, c) ==
    LET r == KernLookup(kernCache, f, prev, c)
    IN  /\ f \in 1..nFonts
        /\ kernCache' = r.cache
        /\ lastCall' = [op |-> "kerning", font |-> f, prev |-> prev, char |-> c,
                        hit |-> r.hit, asked |-> ~r.hit, result |-> r.value]
        /\ UNCHANGED <<nFonts, glyphCache, loads, faceNoneKern>>
        /\ UNCHANGED <<canvasVars, unpackVars, renderVars>>

NextGlyphCache ==
    \/ NewFont
    \/ \E f \in FontIds, c \in Chars : GlyphForCharacter(f, c)

NextKernCache ==
    \/ NewFont
    \/ \E f \in FontIds, prev \in {None} \cup Chars, c \in Chars : KerningOffset(f, prev, c)

(***************************************************************************)
(* Font.text_dimensions and Font.render_text, of the Font instance 1       *)
(***************************************************************************)
\* the width term without the bitmap's width
GlyphExtentAdvanceOnly(glyph, kerning_x) == glyph.advance_width + kerning_x

\* self._max(glyph.advance_width + kerning_x, glyph.width + kerning_x)
GlyphExtent(glyph, kerning_x) ==
    Max(glyph.advance_width + kerning_x, glyph.width + kerning_x)

\* The loop of text_dimensions from character i on.
RECURSIVE DimLoop(_, _, _, _, _, _, _, _)
DimLoop(kc, txt, glyphs, i, width, max_ascent, max_descent, previous_char) ==
    IF i > Len(txt)
    THEN [status |-> "ok", width |-> width, height |-> max_ascent + max_descent,
          baseline |-> max_descent, cache |-> kc]
    ELSE LET k == KernLookup(kc, 1, previous_char, txt[i])
         IN  DimLoop(k.cache, txt, glyphs, i + 1,
                     width + GlyphExtent(glyphs[i], k.value),
                     Max(max_ascent, glyphs[i].ascent),
                     Max(max_descent, glyphs[i].descent),
                     txt[i])

\* Font.text_dimensions(text, glyphs), on the kerning cache kc
text_dimensions(kc, txt, glyphs) ==
    IF Len(txt) # Len(glyphs)
    THEN [status |-> "AssertionError", width |-> 0, height |-> 0, baseline |-> 0,
          cache |-> kc]
    ELSE DimLoop(kc, txt, glyphs, 1, 0, 0, 0, None)

\* glyphs = [self.glyph_for_character(char) for char in text], from i on
RECURSIVE LoadGlyphs(_, _, _, _)
LoadGlyphs(gc, lds, txt, i) ==
    IF i > Len(txt)
    THEN [cache |-> gc, loads |-> lds, glyphs |-> <<>>]
    ELSE LET r    == GlyphLookup(gc, lds, 1, txt[i])
             rest == LoadGlyphs(r.cache, r.loads, txt, i + 1)
         IN  [cache |-> rest.cache, loads |-> rest.loads,
              glyphs |-> <<r.glyph>> \o rest.glyphs]

\* the pen does not move by the kerning
PenXNoKerning(x, kerning_x) == x

\* x += self.kerning_offset(previous_char, char)
PenX(x, kerning_x) == x + kerning_x

\* y = height - glyph.ascent - baseline
BlitY(height, glyph, baseline) == height - glyph.ascent - baseline

\* The loop of render_text from character i on. A bitblt that raises ends
\* the call.
RECURSIVE RenderLoop(_, _, _, _, _, _, _, _, _, _)
RenderLoop(out, kc, txt, glyphs, i, x, previous_char, height, baseline, blits) ==
    IF i > Len(txt)
    THEN [status |-> "ok", bitmap |-> out, blits |-> blits, cache |-> kc]
    ELSE LET k    == KernLookup(kc, 1, previous_char, txt[i])
             x1   == PenX(x, k.value)
             y    == BlitY(height, glyphs[i], baseline)
             r    == bitblt(out, glyphs[i].bitmap, x1, y)
             out1 == [out EXCEPT !.pixels = r.pixels]
         IN  IF ~r.ok
             THEN [status |-> "ValueError", bitmap |-> out1,
                   blits |-> Append(blits, <<x1, y>>), cache |-> k.cache]
             ELSE RenderLoop(out1, k.cache, txt, glyphs, i + 1,
                             x1 + glyphs[i].advance_width, txt[i],
                             height, baseline, Append(blits, <<x1, y>>))

\* return outbuffer: the canvas as the loop r left it
RenderReturn(lg, dim, h, r) ==
    [status |-> r.status, width |-> dim.width, height |-> h,
     baseline |-> dim.baseline, bitmap |-> r.bitmap, blits |-> r.blits,
     glyphCache |-> lg.cache, loads |-> lg.loads, kernCache |-> r.cache]

\* x = 0; previous_char = None; for char, glyph in zip(text, glyphs): ...
\* on the canvas nb that Bitmap(width, height) gave, if it gave one
RenderBlits(lg, dim, txt, h, nb) ==
    IF ~nb.ok
    THEN [status |-> "ValueError", width |-> dim.width, height |-> h,
          baseline |-> dim.baseline, bitmap |-> nb.bitmap, blits |-> <<>>,
          glyphCache |-> lg.cache, loads |-> lg.loads, kernCache |-> dim.cache]
    ELSE RenderReturn(lg, dim, h,
             RenderLoop(nb.bitmap, dim.cache, txt, lg.glyphs, 1, 0, None,
                        h, dim.baseline, <<>>))

\* outbuffer = Bitmap(width, height)
RenderCanvas(lg, dim, txt, h) ==
    RenderBlits(lg, dim, txt, h, BitmapInit(dim.width, h))

\* if height is None: height = _height
RenderHeight(lg, dim, txt, given, height) ==
    RenderCanvas(lg, dim, txt, IF given THEN height ELSE dim.height)

\* width, _height, baseline = self.text_dimensions(text, glyphs)
RenderDims(lg, kc, txt, given, height) ==
    RenderHeight(lg, text_dimensions(kc, txt, lg.glyphs), txt, given, height)

\* Font.render_text(text, height), on the caches gc and kc; given says
\* whether a height was handed in (height=None otherwise).
render_text(gc, lds, kc, txt, given, height) ==
    RenderDims(LoadGlyphs(gc, lds, txt, 1), kc, txt, given, height)

Texts ==
    UNION { [1..n -> TextChars] : n \in 0..MaxTextLen } \cup { <<CharA, CharV>> }

NoRenderCall == [op |-> "none", given |-> FALSE, height |-> 0, glyphs |-> 0]

NoResult == [status |-> "none"]

IdleRender ==
    /\ text = <<>>
    /\ rcall = NoRenderCall
    /\ result = NoResult

\* The glyphs of the first n characters of txt, and the glyph of character 1
\* for every place past the end of txt.
GlyphsFor(txt, n) ==
    [i \in 1..n |-> LoadedGlyph[IF i <= Len(txt) THEN txt[i] ELSE 1]]

\* font.text_dimensions(text, glyphs) with n glyphs
TextDimensions(n) ==
    /\ rcall.op = "none"
    /\ result' = text_dimensions(kernCache, text, GlyphsFor(text, n))
    /\ kernCache' = result'.cache
    /\ rcall' = [op |-> "dims", given |-> FALSE, height |-> 0, glyphs |-> n]
    /\ UNCHANGED <<text, nFonts, glyphCache, loads, faceNoneKern, lastCall>>
    /\ UNCHANGED <<canvasVars, unpackVars>>

\* font.render_text(text, height), or font.render_text(text) when not given
RenderText(given, height) ==
    /\ rcall.op = "none"
    /\ result' = render_text(glyphCache, loads, kernCache, text, given, height)
    /\ glyphCache' = result'.glyphCache
    /\ loads' = result'.loads
    /\ kernCache' = result'.kernCache
    /\ rcall' = [op |-> "render", given |-> given, height |-> height,
                 glyphs |-> Len(text)]
    /\ UNCHANGED <<text, nFonts, faceNoneKern, lastCall>>
    /\ UNCHANGED <<canvasVars, unpackVars>>

NextRender ==
    \/ \E n \in 0..(MaxTextLen + 1) : TextDimensions(n)
    \/ RenderText(FALSE, 0)
    \/ \E h \in 0..MaxHeight : RenderText(TRUE, h)

(***************************************************************************)
(* The specifications                                                      *)
(***************************************************************************)
InitCanvas == IdleCanvas /\ IdleUnpack /\ IdleCache /\ IdleRender

SpecCanvas == InitCanvas /\ [][NextCanvas]_vars

InitUnpack ==
    /\ ftbitmap \in UnpackInputs
    /\ unpacked = [data |-> <<>>, stray |-> FALSE, raised |-> FALSE]
    /\ unpackState = "none"
    /\ IdleCanvas /\ IdleCache /\ IdleRender

SpecUnpack == InitUnpack /\ [][NextUnpack]_vars

InitGlyphCache == IdleCache /\ IdleCanvas /\ IdleUnpack /\ IdleRender

SpecGlyphCache == InitGlyphCache /\ [][NextGlyphCache]_vars

InitKernCache ==
    /\ nFonts = 0
    /\ glyphCache = <<>>
    /\ kernCache = <<>>
    /\ loads = [k \in FontIds \X AllChars |-> 0]
    /\ faceNoneKern \in NoneKernUnits
    /\ lastCall = NoCall
    /\ IdleCanvas /\ IdleUnpack /\ IdleRender

SpecKernCache == InitKernCache /\ [][NextKernCache]_vars

\* One Font has been constructed; its face and the text are the inputs.
InitRender ==
    /\ nFonts = 1
    /\ glyphCache = <<>>
    /\ kernCache = <<>>
    /\ loads = [k \in FontIds \X AllChars |-> 0]
    /\ faceNoneKern \in NoneKernUnits
    /\ lastCall = NoCall
    /\ text \in Texts
    /\ rcall = NoRenderCall
    /\ result = NoResult
    /\ IdleCanvas /\ IdleUnpack

SpecRender == InitRender /\ [][NextRender]_vars

(***************************************************************************)
(* Properties of Bitmap and bitblt                                         *)
(***************************************************************************)
\* The rectangle of s placed at (x, y) lies inside dst.
InBounds(dst, s, x, y) ==
    /\ 0 <= x /\ x + s.width <= dst.width
    /\ 0 <= y /\ y + s.height <= dst.height

\* The pixel of s that lands on (px, py) of the destination when s is placed
\* at (x, y); FALSE outside the rectangle of s.
SrcAt(s, x, y, px, py) ==
    /\ 0 <= px - x /\ px - x < s.width
    /\ 0 <= py - y /\ py - y < s.height
    /\ s.pixels[(py - y) * s.width + (px - x) + 1]

InRect(s, x, y, px, py) ==
    /\ 0 <= px - x /\ px - x < s.width
    /\ 0 <= py - y /\ py - y < s.height

\* C7: an in-bounds blit does not raise; afterwards every destination pixel
\* inside the source's rectangle is (old value OR source pixel), every pixel
\* outside it is unchanged, the canvas still has width * height pixels, and
\* repeating the blit at the same place changes nothing.
C7_BlitOrsInPlace ==
    (blitState \in {"done", "again", "raised"}
        /\ InBounds(canvas, src, blitPos[1], blitPos[2]))
    => /\ blitState # "raised"
       /\ Len(canvas.pixels) = Len(before)
       /\ Len(canvas.pixels) = canvas.width * canvas.height
       /\ \A px \in 0..(canvas.width - 1), py \in 0..(canvas.height - 1) :
            LET i == py * canvas.width + px + 1
            IN  canvas.pixels[i] =
                    (before[i] \/ SrcAt(src, blitPos[1], blitPos[2], px, py))
       /\ (blitState = "again" => canvas.pixels = before)

\* An in-bounds blit of a source of two rows or more, with an on pixel, onto
\* a canvas that had an on pixel under an off source pixel and an on pixel
\* outside the rectangle.
C7_Witness ==
    /\ blitState = "done"
    /\ InBounds(canvas, src, blitPos[1], blitPos[2])
    /\ src.height >= 2 /\ src.width >= 1
    /\ \E px \in 0..(canvas.width - 1), py \in 0..(canvas.height - 1) :
          /\ InRect(src, blitPos[1], blitPos[2], px, py)
          /\ before[py * canvas.width + px + 1]
          /\ ~SrcAt(src, blitPos[1], blitPos[2], px, py)
    /\ \E px \in 0..(canvas.width - 1), py \in 0..(canvas.height - 1) :
          /\ ~InRect(src, blitPos[1], blitPos[2], px, py)
          /\ before[py * canvas.width + px + 1]
    /\ \E i \in 1..Len(src.pixels) : src.pixels[i]

\* C9: Bitmap(width, height) with a negative width or a negative height
\* raises and gives no canvas, and a canvas that is created has
\* width * height pixels, all off.
C9_NegativeDimensionRaises ==
    /\ (newState \in {"ok", "raised"} /\ (newArgs[1] < 0 \/ newArgs[2] < 0))
           => newState = "raised"
    /\ (newState = "ok" /\ blitState = "none")
           => /\ Len(canvas.pixels) = canvas.width * canvas.height
              /\ \A i \in 1..Len(canvas.pixels) : ~canvas.pixels[i]

(***************************************************************************)
(* Properties of unpack_mono_bitmap                                        *)
(***************************************************************************)
CeilDiv8(w) == (w + 7) \div 8

\* C10: with pitch >= ceil(width / 8) the unpacked data has width * rows
\* elements, element y * width + x is bit (7 - x mod 8) of byte
\* y * pitch + x div 8, and no write lands outside its row; the 8x8 block of
\* 0xFF bytes unpacks to 64 on pixels.
C10_UnpackMsbFirst ==
    (unpackState # "none" /\ ftbitmap.pitch >= CeilDiv8(ftbitmap.width))
    => /\ unpackState = "done"
       /\ Len(unpacked.data) = ftbitmap.width * ftbitmap.rows
       /\ ~unpacked.stray
       /\ \A x \in 0..(ftbitmap.width - 1), y \in 0..(ftbitmap.rows - 1) :
             unpacked.data[y * ftbitmap.width + x + 1]
               = ((ftbitmap.buffer[y * ftbitmap.pitch + (x \div 8) + 1]
                     \div Pow2(7 - (x % 8))) % 2 = 1)
       /\ (ftbitmap = Block8x8
             => /\ Len(unpacked.data) = 64
                /\ \A i \in 1..64 : unpacked.data[i])

\* A bitmap of two rows whose rows end inside a byte and carry a padding
\* byte has been unpacked.
C10_Witness ==
    /\ unpackState = "done"
    /\ ftbitmap.rows = 2
    /\ ftbitmap.width % 8 # 0
    /\ ftbitmap.width > 0
    /\ ftbitmap.pitch > CeilDiv8(ftbitmap.width)
    /\ \E i \in 1..Len(unpacked.data) : unpacked.data[i]
    /\ \E i \in 1..Len(unpacked.data) : ~unpacked.data[i]

(***************************************************************************)
(* Properties of the memoized lookups                                      *)
(***************************************************************************)
\* C3: the rasterizer runs at most once for a font instance and a
\* character, and every glyph_for_character call returns the Glyph object
\* the first call made (the object of rasterization 1).
C3_RasterizedAtMostOnce ==
    /\ \A k \in FontIds \X Chars : loads[k] <= 1
    /\ (lastCall.op = "glyph" => lastCall.result = 1)

\* C5: a lookup on one font instance leaves every cache entry of every other
\* instance in the cache, and a new instance has no entry in the cache, so
\* that its first lookup of a character runs the rasterizer.
C5_InstancesIndependent ==
    [][ /\ \A i \in 1..Len(glyphCache) :
              glyphCache[i].font # lastCall'.font
                  => \E j \in 1..Len(glyphCache') : glyphCache'[j] = glyphCache[i]
        /\ (lastCall'.op = "new"
              => \A j \in 1..Len(glyphCache') : glyphCache'[j].font # lastCall'.font)
        /\ (lastCall'.op = "glyph" /\ loads[<<lastCall'.font, lastCall'.char>>] = 0
              => lastCall'.asked) ]_vars

\* C4: kerning_offset(None, c) returns 0, and None is never handed to the
\* face's kerning query.
C4_NoneKerningIsZero ==
    (lastCall.op = "kerning" /\ lastCall.prev = None)
    => /\ lastCall.result = 0
       /\ ~lastCall.asked

(***************************************************************************)
(* Properties of text_dimensions and render_text. They are stated on the   *)
(* text, the glyphs' metrics and the kerning offsets alone, without the     *)
(* loops of the two functions.                                              *)
(***************************************************************************)
\* The glyph of the i-th character, and k_i: the kerning offset of (previous
\* character, character) as kerning_offset gives it.
GlyphAt(i) == LoadedGlyph[text[i]]
KernAt(i) == FaceKerning(IF i = 1 THEN None ELSE text[i - 1], text[i]) \div 64

\* sum over j <= n of max(advance_j + k_j, width_j + k_j)
RECURSIVE LayoutWidth(_)
LayoutWidth(n) ==
    IF n = 0 THEN 0
    ELSE LayoutWidth(n - 1)
           + Max(GlyphAt(n).advance_width + KernAt(n), GlyphAt(n).width + KernAt(n))

\* sum over j <= n of (k_j + advance_j)
RECURSIVE PenAfter(_)
PenAfter(n) ==
    IF n = 0 THEN 0 ELSE PenAfter(n - 1) + KernAt(n) + GlyphAt(n).advance_width

SetMax(S) == IF S = {} THEN 0 ELSE CHOOSE m \in S : \A n \in S : n <= m
MaxAscent == SetMax({GlyphAt(i).ascent : i \in 1..Len(text)})
MaxDescent == SetMax({GlyphAt(i).descent : i \in 1..Len(text)})

\* The canvas render_text is to return, and the place of glyph i on it.
CanvasWidth == LayoutWidth(Len(text))
CanvasHeight == IF rcall.given THEN rcall.height ELSE MaxAscent + MaxDescent
PlaceX(i) == PenAfter(i - 1) + KernAt(i)
PlaceY(i) == CanvasHeight - GlyphAt(i).ascent - MaxDescent

\* Glyph i at (PlaceX(i), PlaceY(i)) lies inside the canvas.
PlacedInBounds(i) ==
    /\ 0 <= PlaceX(i) /\ PlaceX(i) + GlyphAt(i).bitmap.width <= CanvasWidth
    /\ 0 <= PlaceY(i) /\ PlaceY(i) + GlyphAt(i).bitmap.height <= CanvasHeight

\* Glyph i leaves the canvas at its top or at its bottom.
PlacedOffRows(i) ==
    PlaceY(i) < 0 \/ PlaceY(i) + GlyphAt(i).bitmap.height > CanvasHeight

\* C1: render_text without a height issues every blit inside the canvas of
\* the layout's width and the natural height: 0 <= x_i,
\* x_i + glyph.width <= canvas.width, 0 <= y_i and
\* y_i + glyph.height <= canvas.height, for every text, metrics and kerning.
C1_BlitsStayInBounds ==
    (rcall.op = "render" /\ ~rcall.given)
    => /\ result.status = "ok"
       /\ result.bitmap.width = CanvasWidth
       /\ result.bitmap.height = CanvasHeight
       /\ Len(result.blits) = Len(text)
       /\ \A i \in 1..Len(text) :
             InBounds(result.bitmap, GlyphAt(i).bitmap,
                      result.blits[i][1], result.blits[i][2])

\* C2: render_text with a height too small for some glyph's placement (its
\* y negative, or its rows past the canvas) fails and returns no canvas.
C2_SmallHeightRaises ==
    (rcall.op = "render" /\ rcall.given
        /\ \E i \in 1..Len(text) : PlacedOffRows(i))
    => result.status # "ok"

\* C6: when every placement is in bounds, render_text returns a canvas of the
\* layout's width and of the height handed in (the natural height
\* max_ascent + max_descent when none is), with width * height pixels, and
\* pixel (px, py) is on exactly when some glyph i has an on pixel at
\* (px - x_i, py - y_i), x_i = sum over j < i of (k_j + advance_j) + k_i and
\* y_i = height - ascent_i - baseline; the empty text gives a canvas of
\* width 0 without an on pixel.
C6_RenderComposesGlyphs ==
    (rcall.op = "render" /\ \A i \in 1..Len(text) : PlacedInBounds(i))
    => /\ result.status = "ok"
       /\ result.bitmap.width = CanvasWidth
       /\ result.bitmap.height = CanvasHeight
       /\ Len(result.bitmap.pixels) = CanvasWidth * CanvasHeight
       /\ \A px \in 0..(CanvasWidth - 1), py \in 0..(CanvasHeight - 1) :
             result.bitmap.pixels[py * CanvasWidth + px + 1]
               = (\E i \in 1..Len(text) :
                     SrcAt(GlyphAt(i).bitmap, PlaceX(i), PlaceY(i), px, py))
       /\ (text = <<>>
             => /\ result.bitmap.width = 0
                /\ result.bitmap.height = (IF rcall.given THEN rcall.height ELSE 0)
                /\ result.bitmap.pixels = <<>>)

\* An in-bounds render in which a negative kerning pulls a glyph over the
\* one before it, and a canvas pixel is on under both glyphs' rectangles.
C6_Witness ==
    /\ rcall.op = "render" /\ result.status = "ok"
    /\ Len(text) >= 2
    /\ \A i \in 1..Len(text) : PlacedInBounds(i)
    /\ \E i \in 2..Len(text) :
          /\ KernAt(i) < 0
          /\ \E px \in 0..(CanvasWidth - 1), py \in 0..(CanvasHeight - 1) :
                /\ InRect(GlyphAt(i - 1).bitmap, PlaceX(i - 1), PlaceY(i - 1), px, py)
                /\ InRect(GlyphAt(i).bitmap, PlaceX(i), PlaceY(i), px, py)
                /\ result.bitmap.pixels[py * CanvasWidth + px + 1]

\* C8: text_dimensions with as many glyphs as characters returns
\* width = sum of max(advance_width + k, glyph.width + k), k the kerning
\* offset of (previous character, character), height = max ascent + max
\* descent and baseline = max descent; the empty text gives (0, 0, 0); A
\* (advance 10, width 12) and V (advance 8, width 10) with kerning -2
\* between them, and none before A, give width 20; with another number of
\* glyphs the call fails.
C8_DimensionsFormula ==
    rcall.op = "dims"
    => /\ (rcall.glyphs # Len(text) => result.status = "AssertionError")
       /\ (rcall.glyphs = Len(text)
             => /\ result.status = "ok"
                /\ result.width = CanvasWidth
                /\ result.height = MaxAscent + MaxDescent
                /\ result.baseline = MaxDescent)
       /\ (rcall.glyphs = 0 /\ text = <<>>
             => /\ result.width = 0 /\ result.height = 0 /\ result.baseline = 0)
       /\ (rcall.glyphs = 2 /\ text = <<CharA, CharV>> /\ KernAt(1) = 0
             => /\ GlyphAt(1).advance_width = 10 /\ GlyphAt(1).width = 12
                /\ GlyphAt(2).advance_width = 8 /\ GlyphAt(2).width = 10
                /\ KernAt(2) = -2
                /\ result.width = 20)

\* The dimensions of A and V with kerning -2 have been computed.
C8_Witness ==
    /\ rcall.op = "dims" /\ rcall.glyphs = 2
    /\ text = <<CharA, CharV>> /\ KernAt(1) = 0
    /\ result.status = "ok" /\ result.width = 20

====
